---- MODULE Spec2Model ----
(***************************************************************************)
(* A model of the numeris crate: integer_to_roman (src/src/itor.rs) and    *)
(* roman_to_integer (src/src/rtoi.rs) over the ATOMS table of              *)
(* src/numeris/src/lib.rs.                                                 *)
(*                                                                         *)
(* A Rust &str / String is a sequence of one-character strings.  Each      *)
(* function is modelled step by step (one action per branch and per loop   *)
(* iteration).  A behaviour is one of two call chains:                     *)
(*   mode = "itor":  integer_to_roman(val), then roman_to_integer of the   *)
(*                   numeral it returned;                                  *)
(*   mode = "rtoi":  roman_to_integer(input), then (when input is not      *)
(*                   already normalized) roman_to_integer of input trimmed *)
(*                   and upper-cased, then integer_to_roman of the integer *)
(*                   returned.                                             *)
(***************************************************************************)
EXTENDS Integers, Sequences, FiniteSets, TLC

VARIABLES
    mode,               \* which chain this behaviour runs: "itor" or "rtoi"
    pc,                 \* position in the running function
    val,                \* integer_to_roman: the argument val
    seed,               \* integer_to_roman: the state of itertools::unfold
    emitted,            \* integer_to_roman: the digits unfold has yielded
    out,                \* integer_to_roman: the symbols joined so far
    itor_result,        \* integer_to_roman: the value returned
    input,              \* roman_to_integer: the argument numeral
    numeral,            \* roman_to_integer: the normalized numeral
    remaining_numerals, \* ParseState.remaining_numerals
    numeral_pos,        \* ParseState.numeral_pos
    remaining_to_parse, \* ParseState.remaining_to_parse
    group_size,         \* ParseState.group_size
    result,             \* decompose_numeral: the Vec<u32> result
    iterations,         \* decompose_numeral: loop iterations run (history)
    rtoi_result,        \* roman_to_integer: the value returned
    first               \* the value the chain's first roman_to_integer returned

vars == <<mode, pc, val, seed, emitted, out, itor_result, input, numeral,
          remaining_numerals, numeral_pos, remaining_to_parse, group_size,
          result, iterations, rtoi_result, first>>

itor_locals == <<seed, emitted, out>>
rtoi_locals == <<numeral, remaining_numerals, numeral_pos, remaining_to_parse,
                 group_size, result, iterations>>

(***************************************************************************)
(* Bounds of the model.                                                    *)
(***************************************************************************)
\* integer_to_roman is called with every val in 0..MaxInput (and two larger)
MaxInput == 4001
\* roman_to_integer is called with every string over I,V,X,L,C,D,M of length
\* at most MaxLen
MaxLen == 5
\* ... and with every string over RawChars of length at most MaxRawLen
MaxRawLen == 4
\* ... and with MMM followed by every string over I,V,X,L,C,D,M of length at
\* most MaxTailLen
MaxTailLen == 3

(***************************************************************************)
(* The static data of src/numeris/src/lib.rs.                              *)
(***************************************************************************)
MIN_VALUE == 1
MAX_VALUE == 3999

RomanNumeral(v, s, g) == [value |-> v, symbol |-> s, max_group |-> g]

ATOMS ==
    << RomanNumeral(1000, <<"M">>, 3),
       RomanNumeral(900, <<"C", "M">>, 1),
       RomanNumeral(500, <<"D">>, 1),
       RomanNumeral(400, <<"C", "D">>, 1),
       RomanNumeral(100, <<"C">>, 3),
       RomanNumeral(90, <<"X", "C">>, 1),
       RomanNumeral(50, <<"L">>, 1),
       RomanNumeral(40, <<"X", "L">>, 1),
       RomanNumeral(10, <<"X">>, 3),
       RomanNumeral(9, <<"I", "X">>, 1),
       RomanNumeral(5, <<"V">>, 1),
       RomanNumeral(4, <<"I", "V">>, 1),
       RomanNumeral(1, <<"I">>, 3) >>

\* mutant of DIGITS: the values collected in ascending order
DIGITS_Ascending == [i \in 1..Len(ATOMS) |-> ATOMS[Len(ATOMS) + 1 - i].value]

\* static ref DIGITS: Vec<u32> = ATOMS.iter().map(|rn| rn.value).collect_vec()
DIGITS == [i \in 1..Len(ATOMS) |-> ATOMS[i].value]

(***************************************************************************)
(* The values returned: Result<String> and Result<u32>, and "no value yet".*)
(***************************************************************************)
NoResult == [tag |-> "None", val |-> 0, text |-> <<>>]
OkString(s) == [tag |-> "Ok", val |-> 0, text |-> s]
OkInt(n) == [tag |-> "Ok", val |-> n, text |-> <<>>]
ValueTooSmall(v) == [tag |-> "ValueTooSmall", val |-> v, text |-> <<>>]
ValueTooLarge(v) == [tag |-> "ValueTooLarge", val |-> v, text |-> <<>>]
Unparsable(s) == [tag |-> "Unparsable", val |-> 0, text |-> s]
EmptyString == [tag |-> "EmptyString", val |-> 0, text |-> <<>>]

(***************************************************************************)
(* Characters and the str methods the code calls.                          *)
(***************************************************************************)
Letters == {"I", "V", "X", "L", "C", "D", "M"}
LowerAlphabet == << "a", "b", "c", "d", "e", "f", "g", "h", "i", "j", "k", "l", "m",
                    "n", "o", "p", "q", "r", "s", "t", "u", "v", "w", "x", "y", "z" >>
UpperAlphabet == << "A", "B", "C", "D", "E", "F", "G", "H", "I", "J", "K", "L", "M",
                    "N", "O", "P", "Q", "R", "S", "T", "U", "V", "W", "X", "Y", "Z" >>

\* char::is_whitespace, on the characters of the model
IsWhitespace(c) == c \in {" ", "\t", "\n"}

\* u8::to_ascii_uppercase: a-z to A-Z, every other character unchanged
ToAsciiUppercaseChar(c) ==
    IF \E i \in 1..Len(LowerAlphabet) : LowerAlphabet[i] = c
    THEN UpperAlphabet[CHOOSE i \in 1..Len(LowerAlphabet) : LowerAlphabet[i] = c]
    ELSE c

\* str::to_ascii_uppercase
ToAsciiUppercase(s) == [i \in 1..Len(s) |-> ToAsciiUppercaseChar(s[i])]

RECURSIVE TrimStart(_)
\* str::trim_start
TrimStart(s) ==
    IF s # <<>> /\ IsWhitespace(Head(s)) THEN TrimStart(Tail(s)) ELSE s

RECURSIVE TrimEnd(_)
\* str::trim_end
TrimEnd(s) ==
    IF s # <<>> /\ IsWhitespace(s[Len(s)])
    THEN TrimEnd(SubSeq(s, 1, Len(s) - 1))
    ELSE s

\* str::trim
Trim(s) == TrimEnd(TrimStart(s))

\* str::starts_with(&str)
StartsWith(s, prefix) ==
    /\ Len(prefix) <= Len(s)
    /\ SubSeq(s, 1, Len(prefix)) = prefix

\* mutant of SliceFrom: the slice starts one element late
SliceFrom_OffByOne(s, skip) == SubSeq(s, skip + 2, Len(s))

\* &s[skip..]
SliceFrom(s, skip) == SubSeq(s, skip + 1, Len(s))

(***************************************************************************)
(* integer_to_roman, src/src/itor.rs                                       *)
(***************************************************************************)
\* val < MIN_VALUE
TooSmall(v) == v < MIN_VALUE

\* mutant of TooLarge: the comparison off by one (>= for >)
TooLarge_OffByOne(v) == v >= MAX_VALUE

\* val > MAX_VALUE
TooLarge(v) == v > MAX_VALUE

\* mutant of FindIndex: the last digit not above the seed (rfind for find)
FindIndex_Last(s) ==
    IF \E i \in 1..Len(DIGITS) : s >= DIGITS[i]
    THEN CHOOSE i \in 1..Len(DIGITS) :
            /\ s >= DIGITS[i]
            /\ \A j \in (i + 1)..Len(DIGITS) : ~(s >= DIGITS[j])
    ELSE 0

\* mutant of FindIndex: the predicate with > for >=
FindIndex_Strict(s) ==
    IF \E i \in 1..Len(DIGITS) : s > DIGITS[i]
    THEN CHOOSE i \in 1..Len(DIGITS) :
            /\ s > DIGITS[i]
            /\ \A j \in 1..(i - 1) : ~(s > DIGITS[j])
    ELSE 0

\* DIGITS.iter().find(|digit| *seed >= **digit): the index found, 0 for None
FindIndex(s) ==
    IF \E i \in 1..Len(DIGITS) : s >= DIGITS[i]
    THEN CHOOSE i \in 1..Len(DIGITS) :
            /\ s >= DIGITS[i]
            /\ \A j \in 1..(i - 1) : ~(s >= DIGITS[j])
    ELSE 0

\* DIGITS.iter().find(|digit| *seed >= **digit).unwrap_or(&1)
NextDigit(s) == IF FindIndex(s) = 0 THEN 1 ELSE DIGITS[FindIndex(s)]

\* VALUES_TO_SYMBOLS.get(&digit) under filter_map: the symbol to join, the
\* empty string when the map has no such key (the digit is filtered out)
SymbolOf(digit) ==
    IF \E i \in 1..Len(ATOMS) : ATOMS[i].value = digit
    THEN ATOMS[CHOOSE i \in 1..Len(ATOMS) : ATOMS[i].value = digit].symbol
    ELSE <<>>

\* if val < MIN_VALUE { Err(ValueTooSmall(val)) }
ItorTooSmall ==
    /\ pc = "itor_call"
    /\ TooSmall(val)
    /\ itor_result' = ValueTooSmall(val)
    /\ pc' = "itor_ret"
    /\ UNCHANGED <<mode, val, itor_locals, input, rtoi_locals, rtoi_result, first>>

\* else if val > MAX_VALUE { Err(ValueTooLarge(val)) }
ItorTooLarge ==
    /\ pc = "itor_call"
    /\ ~TooSmall(val)
    /\ TooLarge(val)
    /\ itor_result' = ValueTooLarge(val)
    /\ pc' = "itor_ret"
    /\ UNCHANGED <<mode, val, itor_locals, input, rtoi_locals, rtoi_result, first>>

\* else { itertools::unfold(val, digit_extractor) ... }
ItorUnfold ==
    /\ pc = "itor_call"
    /\ ~TooSmall(val)
    /\ ~TooLarge(val)
    /\ seed' = val
    /\ emitted' = <<>>
    /\ out' = <<>>
    /\ pc' = "itor_unfold"
    /\ UNCHANGED <<mode, val, itor_result, input, rtoi_locals, rtoi_result, first>>

\* digit_extractor returning Some(next_digit); the digit then passes
\* filter_map and is joined to the output.  *seed - *next_digit is a u32
\* subtraction: with next_digit > seed it overflows, which panics in a build
\* with overflow checks (pc "itor_panic"; the wrapped value of a build
\* without them is beyond the integers TLC has).
DigitExtractor ==
    /\ pc = "itor_unfold"
    /\ seed # 0
    /\ LET next_digit == NextDigit(seed) IN
        IF next_digit <= seed
        THEN /\ seed' = seed - next_digit
             /\ emitted' = Append(emitted, next_digit)
             /\ out' = out \o SymbolOf(next_digit)
             /\ pc' = pc
        ELSE /\ pc' = "itor_panic"
             /\ UNCHANGED <<seed, emitted, out>>
    /\ UNCHANGED <<mode, val, itor_result, input, rtoi_locals, rtoi_result, first>>

\* digit_extractor returning None: the iterator ends, Ok(result)
ItorOk ==
    /\ pc = "itor_unfold"
    /\ seed = 0
    /\ itor_result' = OkString(out)
    /\ pc' = "itor_ret"
    /\ UNCHANGED <<mode, val, itor_locals, input, rtoi_locals, rtoi_result, first>>

(***************************************************************************)
(* roman_to_integer, src/src/rtoi.rs                                       *)
(***************************************************************************)
\* mutant of NormalizeNumeral: trim_start for trim
NormalizeNumeral_TrimStart(s) == ToAsciiUppercase(TrimStart(s))

\* numeral.trim().to_ascii_uppercase()
NormalizeNumeral(s) == ToAsciiUppercase(Trim(s))

\* RE.is_match(numeral) for RE = ^[IVXLCDM]+$
ReIsMatch(s) ==
    /\ Len(s) >= 1
    /\ \A i \in 1..Len(s) : s[i] \in Letters

\* mutant of CheckNumeralFormat: the regex is tried before the length
CheckNumeralFormat_RegexFirst(s) ==
    IF ~ReIsMatch(s) THEN Unparsable(s)
    ELSE IF Len(s) = 0 THEN EmptyString
    ELSE NoResult

\* mutant of CheckNumeralFormat: Unparsable carries the argument of
\* roman_to_integer instead of the normalized numeral
CheckNumeralFormat_RawPayload(s) ==
    IF Len(s) = 0 THEN EmptyString
    ELSE IF ~ReIsMatch(s) THEN Unparsable(input)
    ELSE NoResult

\* check_numeral_format: the error returned, NoResult for Ok(numeral)
CheckNumeralFormat(s) ==
    IF Len(s) = 0 THEN EmptyString
    ELSE IF ~ReIsMatch(s) THEN Unparsable(s)
    ELSE NoResult

\* ParseState::current_numeral
CurrentNumeral(rn) == rn[1]

\* mutant of IsComplete: off by one, complete with one atom left
IsComplete_OffByOne(rn) == Len(rn) <= 1

\* ParseState::is_complete
IsComplete(rn) == Len(rn) = 0

\* mutant of GroupIsFull: every atom is advanced past after one use
GroupIsFull_Always(atom, size) == TRUE

\* mutant of GroupIsFull: the group is decided by a repeatable flag, true
\* for the six plain atoms, instead of by max_group
GroupIsFull_RepeatableFlag(atom, size) ==
    atom.symbol \notin {<<"M">>, <<"D">>, <<"C">>, <<"L">>, <<"X">>, <<"I">>}

\* parse_state.current_numeral().max_group == parse_state.group_size
GroupIsFull(atom, size) == atom.max_group = size

\* parse_state.remaining_to_parse.len() > 0
HasLeftover(rest) == Len(rest) > 0

\* mutant of DecomposeError: Unparsable carries the unconsumed suffix
DecomposeError_Suffix(s, rest) == Unparsable(rest)

\* the Unparsable error of decompose_numeral
DecomposeError(s, rest) == Unparsable(s)

RECURSIVE Fold(_)
\* fold(digits.as_slice(), 0, |seed, &val| seed + val); the u32 sum cannot
\* overflow: the loop pushes each atom's value at most max_group times
Fold(digits) ==
    IF digits = <<>> THEN 0
    ELSE Fold(SubSeq(digits, 1, Len(digits) - 1)) + digits[Len(digits)]

\* check_numeral_format returns Err(EmptyString) or Err(Unparsable), which
\* the ? operator returns from roman_to_integer
RtoiFormatError ==
    /\ pc = "rtoi_call"
    /\ LET n == NormalizeNumeral(input) IN
        /\ CheckNumeralFormat(n) # NoResult
        /\ numeral' = n
        /\ rtoi_result' = CheckNumeralFormat(n)
    /\ pc' = "rtoi_ret"
    /\ UNCHANGED <<mode, val, itor_locals, itor_result, input, remaining_numerals,
                   numeral_pos, remaining_to_parse, group_size, result, iterations,
                   first>>

\* check_numeral_format returns Ok; decompose_numeral starts with
\* ParseState::new(numeral) and an empty result
RtoiDecompose ==
    /\ pc = "rtoi_call"
    /\ LET n == NormalizeNumeral(input) IN
        /\ CheckNumeralFormat(n) = NoResult
        /\ numeral' = n
        /\ remaining_to_parse' = n
    /\ remaining_numerals' = ATOMS
    /\ numeral_pos' = 0
    /\ group_size' = 0
    /\ result' = <<>>
    /\ iterations' = 0
    /\ pc' = "rtoi_loop"
    /\ UNCHANGED <<mode, val, itor_locals, itor_result, input, rtoi_result, first>>

\* the loop body when remaining_to_parse starts with the current symbol:
\* push the value, remove_current, and advance_numeral when the group is full
ConsumeCurrent ==
    /\ pc = "rtoi_loop"
    /\ ~IsComplete(remaining_numerals)
    /\ StartsWith(remaining_to_parse, CurrentNumeral(remaining_numerals).symbol)
    /\ result' = Append(result, CurrentNumeral(remaining_numerals).value)
    /\ LET skip == Len(CurrentNumeral(remaining_numerals).symbol)
           size == group_size + 1
       IN
        /\ remaining_to_parse' = SliceFrom(remaining_to_parse, skip)
        /\ IF GroupIsFull(CurrentNumeral(remaining_numerals), size)
           THEN /\ numeral_pos' = numeral_pos + 1
                /\ remaining_numerals' = SliceFrom(ATOMS, numeral_pos + 1)
                /\ group_size' = 0
           ELSE /\ group_size' = size
                /\ UNCHANGED <<numeral_pos, remaining_numerals>>
    /\ iterations' = iterations + 1
    /\ UNCHANGED <<mode, pc, val, itor_locals, itor_result, input, numeral,
                   rtoi_result, first>>

\* the loop body otherwise: advance_numeral
AdvanceNumeral ==
    /\ pc = "rtoi_loop"
    /\ ~IsComplete(remaining_numerals)
    /\ ~StartsWith(remaining_to_parse, CurrentNumeral(remaining_numerals).symbol)
    /\ numeral_pos' = numeral_pos + 1
    /\ remaining_numerals' = SliceFrom(ATOMS, numeral_pos + 1)
    /\ group_size' = 0
    /\ iterations' = iterations + 1
    /\ UNCHANGED <<mode, pc, val, itor_locals, itor_result, input, numeral,
                   remaining_to_parse, result, rtoi_result, first>>

\* after the loop, text is left: Err(Unparsable(numeral))
RtoiLeftover ==
    /\ pc = "rtoi_loop"
    /\ IsComplete(remaining_numerals)
    /\ HasLeftover(remaining_to_parse)
    /\ rtoi_result' = DecomposeError(numeral, remaining_to_parse)
    /\ pc' = "rtoi_ret"
    /\ UNCHANGED <<mode, val, itor_locals, itor_result, input, rtoi_locals, first>>

\* after the loop, no text is left: Ok(result), folded to Ok(sum)
RtoiOk ==
    /\ pc = "rtoi_loop"
    /\ IsComplete(remaining_numerals)
    /\ ~HasLeftover(remaining_to_parse)
    /\ rtoi_result' = OkInt(Fold(result))
    /\ pc' = "rtoi_ret"
    /\ UNCHANGED <<mode, val, itor_locals, itor_result, input, rtoi_locals, first>>

(***************************************************************************)
(* The callers: the two call chains.                                       *)
(***************************************************************************)
\* the locals of a roman_to_integer call that has not started
FreshRtoi ==
    /\ numeral' = <<>>
    /\ remaining_numerals' = ATOMS
    /\ numeral_pos' = 0
    /\ remaining_to_parse' = <<>>
    /\ group_size' = 0
    /\ result' = <<>>
    /\ iterations' = 0

\* mode "itor": roman_to_integer(integer_to_roman(val).unwrap())
CallRtoiOnNumeral ==
    /\ mode = "itor"
    /\ pc = "itor_ret"
    /\ itor_result.tag = "Ok"
    /\ input' = itor_result.text
    /\ pc' = "rtoi_call"
    /\ UNCHANGED <<mode, val, itor_locals, itor_result, rtoi_locals, rtoi_result, first>>

\* mode "rtoi": roman_to_integer(input.trim().to_ascii_uppercase()) after
\* roman_to_integer(input), when the two arguments differ
CallRtoiOnNormalized ==
    /\ mode = "rtoi"
    /\ pc = "rtoi_ret"
    /\ first = NoResult
    /\ ToAsciiUppercase(Trim(input)) # input
    /\ first' = rtoi_result
    /\ input' = ToAsciiUppercase(Trim(input))
    /\ rtoi_result' = NoResult
    /\ FreshRtoi
    /\ pc' = "rtoi_call"
    /\ UNCHANGED <<mode, val, itor_locals, itor_result>>

\* mode "rtoi": integer_to_roman(roman_to_integer(input).unwrap())
CallItorOnInteger ==
    /\ mode = "rtoi"
    /\ pc = "rtoi_ret"
    /\ first # NoResult \/ ToAsciiUppercase(Trim(input)) = input
    /\ rtoi_result.tag = "Ok"
    /\ val' = rtoi_result.val
    /\ pc' = "itor_call"
    /\ UNCHANGED <<mode, itor_locals, itor_result, input, rtoi_locals, rtoi_result, first>>

(***************************************************************************)
(* The arguments the chains start from.                                    *)
(***************************************************************************)
Strings(chars, n) == UNION {[1..k -> chars] : k \in 0..n}

RawChars == {" ", "\n", "i", "v", "X", "1"}

\* the arguments of the source's tests and doc examples
TestNumerals ==
    { <<"A", "B", "C", "D", "E", "F">>, <<"M", "M", "D", "L", "1">>,
      <<"9", "3", "4", ";", "-", ")">>, <<"C", "M", "M">>, <<"I", "D">>,
      <<"M", "M", "C", "C", "D">>, <<"X", "L", "X", "L">>, <<"I", "I", "I", "I">>,
      <<"V", "V">>, <<"D", "D", "I", "V">>, <<"B", "A", "D">>,
      <<>>, <<" ", " ", " ">>, <<"\t">>, <<"\n">>, <<" ", " ", " ", " ">>,
      <<" ", " ", "M", "C", "X", "L", "I", "I">>, <<"C", "I", "I", " ", " ">>,
      <<" ", " ", "X", " ", " ">>, <<"V", "\n">>, <<"m", "c", "m", "x", "l">>,
      <<" ", "c", "c", "l", "x", "i", " ">>,
      <<"m", "m", "C", "C", "x", "X", "i", "I">>, <<" ", "c", "v", "\n">>,
      <<"M", "C", "X", "L", "I", "I">>, <<"X", "L", "V", "I", "I", "I">>,
      <<"D", "C", "C", "I">>, <<"M", "M", "C", "D", "L", "X", "V", "I", "I", "I">>,
      <<"M", "M", "M", "C", "M", "X", "C", "I", "X">>, <<"I", " ", "I">> }

IntInputs == (0..MaxInput) \cup {6000, 2147483647}

\* numerals at the top of the range: MMM and a tail
LongNumerals == { <<"M", "M", "M">> \o t : t \in Strings(Letters, MaxTailLen) }

StrInputs ==
    Strings(Letters, MaxLen) \cup Strings(RawChars, MaxRawLen) \cup LongNumerals
        \cup TestNumerals

Init ==
    /\ mode \in {"itor", "rtoi"}
    /\ IF mode = "itor"
       THEN val \in IntInputs /\ input = <<>> /\ pc = "itor_call"
       ELSE val = 0 /\ input \in StrInputs /\ pc = "rtoi_call"
    /\ seed = 0
    /\ emitted = <<>>
    /\ out = <<>>
    /\ itor_result = NoResult
    /\ numeral = <<>>
    /\ remaining_numerals = ATOMS
    /\ numeral_pos = 0
    /\ remaining_to_parse = <<>>
    /\ group_size = 0
    /\ result = <<>>
    /\ iterations = 0
    /\ rtoi_result = NoResult
    /\ first = NoResult

Next ==
    \/ ItorTooSmall
    \/ ItorTooLarge
    \/ ItorUnfold
    \/ DigitExtractor
    \/ ItorOk
    \/ RtoiFormatError
    \/ RtoiDecompose
    \/ ConsumeCurrent
    \/ AdvanceNumeral
    \/ RtoiLeftover
    \/ RtoiOk
    \/ CallRtoiOnNumeral
    \/ CallRtoiOnNormalized
    \/ CallItorOnInteger

Spec == Init /\ [][Next]_vars

(***************************************************************************)
(* Vocabulary of the properties.                                           *)
(***************************************************************************)
\* every character of s is whitespace (s is empty after trimming)
AllWhitespace(s) == \A i \in 1..Len(s) : IsWhitespace(s[i])

\* s is a string over I, V, X, L, C, D, M
OverLetters(s) == \A i \in 1..Len(s) : s[i] \in Letters

\* sub occurs in s as a substring
Contains(s, sub) ==
    \E i \in 1..(Len(s) - Len(sub) + 1) : SubSeq(s, i, i + Len(sub) - 1) = sub

ForbiddenRuns ==
    { <<"I", "I", "I", "I">>, <<"V", "V">>, <<"X", "X", "X", "X">>, <<"L", "L">>,
      <<"C", "C", "C", "C">>, <<"D", "D">>, <<"M", "M", "M", "M">> }

HasForbiddenRun(s) == \E run \in ForbiddenRuns : Contains(s, run)

LetterValue(c) ==
    CASE c = "I" -> 1 [] c = "V" -> 5 [] c = "X" -> 10 [] c = "L" -> 50
      [] c = "C" -> 100 [] c = "D" -> 500 [] c = "M" -> 1000 [] OTHER -> 0

SubtractivePairs ==
    { <<"I", "V">>, <<"I", "X">>, <<"X", "L">>, <<"X", "C">>, <<"C", "D">>,
      <<"C", "M">> }

\* s places a smaller symbol before a larger one other than as the two
\* adjacent letters of a subtractive pair
HasMisplacedSmaller(s) ==
    \E i \in 1..Len(s) : \E j \in (i + 1)..Len(s) :
        /\ LetterValue(s[i]) < LetterValue(s[j])
        /\ ~(j = i + 1 /\ <<s[i], s[j]>> \in SubtractivePairs)

RECURSIVE SeqSum(_)
SeqSum(q) == IF q = <<>> THEN 0 ELSE Head(q) + SeqSum(Tail(q))

RECURSIVE SymbolsOf(_)
\* the symbols of the atoms whose values are q, concatenated
SymbolsOf(q) == IF q = <<>> THEN <<>> ELSE SymbolOf(Head(q)) \o SymbolsOf(Tail(q))

(***************************************************************************)
(* C1.  Round trip: for every n with 1 <= n <= 3999, integer_to_roman(n)   *)
(* returns Ok(s) and roman_to_integer(s) returns Ok(n).                    *)
(***************************************************************************)
RoundTrip ==
    (mode = "itor" /\ val >= 1 /\ val <= 3999) =>
        /\ pc = "itor_ret" => itor_result.tag = "Ok"
        /\ pc = "rtoi_call" => input = itor_result.text
        /\ pc = "rtoi_ret" => rtoi_result = OkInt(val)
        /\ pc # "rtoi_ret" => ENABLED Next

RoundTripWitness ==
    /\ mode = "itor"
    /\ val = 3999
    /\ pc = "rtoi_ret"
    /\ itor_result = OkString(<<"M", "M", "M", "C", "M", "X", "C", "I", "X">>)
    /\ rtoi_result = OkInt(3999)

(***************************************************************************)
(* C2.  integer_to_roman(v) returns Err(ValueTooSmall(v)) for every v < 1, *)
(* Err(ValueTooLarge(v)) for every v > 3999 and Ok for every v in 1..3999; *)
(* the error carries the argument itself.                                  *)
(***************************************************************************)
ItorRange ==
    /\ pc = "itor_ret" =>
        /\ val < 1 => itor_result = ValueTooSmall(val)
        /\ val > 3999 => itor_result = ValueTooLarge(val)
        /\ (val >= 1 /\ val <= 3999) => itor_result.tag = "Ok"
    /\ pc \in {"itor_call", "itor_unfold", "itor_panic"} => ENABLED Next

ItorRangeWitness ==
    /\ pc = "itor_ret"
    /\ val = 4000
    /\ itor_result = ValueTooLarge(4000)

(***************************************************************************)
(* C3.  roman_to_integer returns Err(EmptyString) for every argument that  *)
(* is empty after trimming (the empty string, every whitespace-only        *)
(* string): such an argument is never reported Unparsable.                 *)
(***************************************************************************)
EmptyIsEmptyString ==
    (pc = "rtoi_ret" /\ AllWhitespace(input)) => rtoi_result = EmptyString

EmptyIsEmptyStringWitness ==
    /\ pc = "rtoi_ret"
    /\ input = <<" ", "\n", " ">>
    /\ rtoi_result = EmptyString

(***************************************************************************)
(* C4.  For every argument whose normalized text (trimmed, upper-cased) is *)
(* non-empty and has a character outside I,V,X,L,C,D,M, roman_to_integer   *)
(* returns Err(Unparsable(t)) with t the normalized text, not the argument.*)
(***************************************************************************)
BadCharacterUnparsable ==
    pc = "rtoi_ret" =>
        LET t == ToAsciiUppercase(Trim(input)) IN
            (Len(t) > 0 /\ ~OverLetters(t)) => rtoi_result = Unparsable(t)

BadCharacterUnparsableWitness ==
    /\ pc = "rtoi_ret"
    /\ input = <<" ", "i", "1">>
    /\ rtoi_result = Unparsable(<<"I", "1">>)

(***************************************************************************)
(* C5.  For every string over I,V,X,L,C,D,M that contains IIII, VV, XXXX,  *)
(* LL, CCCC, DD or MMMM, or that places a smaller symbol before a larger   *)
(* one outside the six subtractive pairs, roman_to_integer returns         *)
(* Err(Unparsable), never Ok.                                              *)
(***************************************************************************)
MalformedRejected ==
    (/\ pc = "rtoi_ret"
     /\ OverLetters(input)
     /\ HasForbiddenRun(input) \/ HasMisplacedSmaller(input))
        => rtoi_result.tag = "Unparsable"

(***************************************************************************)
(* C6.  For every n with 1 <= n <= 3999, the string integer_to_roman(n)    *)
(* returns is non-empty, consists of the letters I,V,X,L,C,D,M only and    *)
(* contains none of IIII, VV, XXXX, LL, CCCC, DD, MMMM.                    *)
(***************************************************************************)
CanonicalForm ==
    (pc = "itor_ret" /\ val >= 1 /\ val <= 3999) =>
        /\ itor_result.tag = "Ok"
        /\ itor_result.text # <<>>
        /\ OverLetters(itor_result.text)
        /\ ~HasForbiddenRun(itor_result.text)

CanonicalFormWitness ==
    /\ pc = "itor_ret"
    /\ val = 3888
    /\ itor_result = OkString(<<"M", "M", "M", "D", "C", "C", "C", "L", "X", "X", "X",
                                "V", "I", "I", "I">>)

(***************************************************************************)
(* C7.  Normalization does not change the result: roman_to_integer(s) and  *)
(* roman_to_integer of s trimmed and upper-cased return the same value or  *)
(* the same error, with the same Unparsable text.                          *)
(***************************************************************************)
NormalizationAgrees ==
    (pc = "rtoi_ret" /\ first # NoResult) => rtoi_result = first

NormalizationAgreesWitness ==
    /\ pc = "rtoi_ret"
    /\ input = <<"C", "V">>
    /\ first = OkInt(105)
    /\ rtoi_result = OkInt(105)

(***************************************************************************)
(* C8.  roman_to_integer accepts only canonical numerals: if               *)
(* roman_to_integer(s) returns Ok(n) then integer_to_roman(n) returns      *)
(* Ok(t) with t the normalized text of s.                                  *)
(***************************************************************************)
AcceptsOnlyCanonical ==
    (mode = "rtoi" /\ pc = "itor_ret") => itor_result = OkString(numeral)

(***************************************************************************)
(* C9.  Decoding is all-or-nothing: roman_to_integer returns Ok(n) only    *)
(* when the decomposition consumed the whole normalized text, and n is the *)
(* sum of the values of the atoms consumed; when text is left after the    *)
(* atom table is exhausted it returns Err(Unparsable(t)), t the whole      *)
(* normalized text, and no partial sum.                                    *)
(***************************************************************************)
AllOrNothing ==
    pc = "rtoi_ret" =>
        /\ rtoi_result.tag = "Ok" =>
            /\ remaining_to_parse = <<>>
            /\ SymbolsOf(result) = numeral
            /\ numeral = ToAsciiUppercase(Trim(input))
            /\ rtoi_result.val = SeqSum(result)
        /\ (numeral_pos = Len(ATOMS) /\ remaining_to_parse # <<>>) =>
            /\ rtoi_result = Unparsable(ToAsciiUppercase(Trim(input)))
            /\ SymbolsOf(result) \o remaining_to_parse = rtoi_result.text

AllOrNothingWitness ==
    /\ pc = "rtoi_ret"
    /\ input = <<"M", "M", "C", "C", "D">>
    /\ result = <<1000, 1000, 100, 100>>
    /\ remaining_to_parse = <<"D">>
    /\ rtoi_result = Unparsable(<<"M", "M", "C", "C", "D">>)

(***************************************************************************)
(* C10.  The greedy encoder is optimal.                                    *)
(*                                                                         *)
(* As claimed: for every n with 1 <= n <= 3999, the number of atoms        *)
(* integer_to_roman(n) emits is the least size of a multiset of the 13     *)
(* atom values that sums to n (GreedyFewestAtoms).                         *)
(*                                                                         *)
(* As it holds: for every n with 1 <= n <= 3999, the string                *)
(* integer_to_roman(n) returns has the least number of characters among    *)
(* the multisets of atoms that use each atom at most max_group times and   *)
(* sum to n (GreedyShortest).                                              *)
(***************************************************************************)
Least(S) == CHOOSE m \in S : \A k \in S : m <= k

\* t[n], n in 1..Len(t), being the least size of a multiset of atom values
\* that sums to n: that least size for Len(t) + 1
FewestNext(t) ==
    LET n == Len(t) + 1 IN
        1 + Least({ IF ATOMS[i].value = n THEN 0 ELSE t[n - ATOMS[i].value] :
                        i \in {i \in 1..Len(ATOMS) : ATOMS[i].value <= n} })

RECURSIVE FewestGrow(_, _)
FewestGrow(t, k) ==
    IF k = 0 \/ Len(t) = 3999 THEN t
    ELSE FewestGrow(Append(t, FewestNext(t)), k - 1)

RECURSIVE FewestBlocks(_)
FewestBlocks(t) == IF Len(t) = 3999 THEN t ELSE FewestBlocks(FewestGrow(t, 64))

\* FewestAtoms[n], n in 1..3999: the least size of a multiset of the 13 atom
\* values that sums to n
FewestAtoms == FewestBlocks(<<>>)

\* prev[n + 1] being the least number of characters of a multiset of some
\* atoms summing to n (4000 or more: there is none), the same with one more
\* atom allowed, at most max_group times
ShortestStage(prev, atom) ==
    SubSeq([i \in 1..Len(prev) |->
                Least({ prev[i - j * atom.value] + j * Len(atom.symbol) :
                            j \in {j \in 0..atom.max_group : j * atom.value < i} })],
           1, Len(prev))

RECURSIVE ShortestUpTo(_)
ShortestUpTo(k) ==
    IF k = 0
    THEN SubSeq([i \in 1..4000 |-> IF i = 1 THEN 0 ELSE 4000], 1, 4000)
    ELSE ShortestStage(ShortestUpTo(k - 1), ATOMS[k])

\* ShortestLength[n + 1], n in 0..3999: the least number of characters of a
\* multiset of atoms, each used at most max_group times, that sums to n
ShortestLength == ShortestUpTo(Len(ATOMS))

GreedyFewestAtoms ==
    (pc = "itor_ret" /\ val >= 1 /\ val <= 3999) =>
        /\ itor_result.tag = "Ok"
        /\ Len(emitted) = FewestAtoms[val]

GreedyShortest ==
    (pc = "itor_ret" /\ val >= 1 /\ val <= 3999) =>
        /\ itor_result.tag = "Ok"
        /\ SeqSum(emitted) = val
        /\ itor_result.text = SymbolsOf(emitted)
        /\ Len(itor_result.text) = ShortestLength[val + 1]

GreedyShortestWitness ==
    /\ pc = "itor_ret"
    /\ val = 18
    /\ emitted = <<10, 5, 1, 1, 1>>
    /\ itor_result = OkString(<<"X", "V", "I", "I", "I">>)
    /\ FewestAtoms[18] = 2
    /\ ShortestLength[19] = 5

(***************************************************************************)
(* C11.  Encoder loop: from remainder n, 1 <= n <= 3999, each step of      *)
(* digit_extractor selects the largest atom value not above the remainder  *)
(* (a table entry, never the unwrap_or fallback); the remainder strictly   *)
(* decreases and never underflows and reaches 0 after at most 15 steps;    *)
(* the values emitted sum to n and each maps to a symbol, so none is       *)
(* dropped from the output.                                                *)
(***************************************************************************)
AtomValues == {ATOMS[i].value : i \in 1..Len(ATOMS)}

\* the largest atom value not above r, 0 when there is none
LargestAtomValue(r) ==
    IF \E v \in AtomValues : v <= r
    THEN CHOOSE v \in AtomValues : v <= r /\ \A w \in AtomValues : w <= r => w <= v
    ELSE 0

EncoderLoop ==
    /\ pc # "itor_panic"
    /\ (pc = "itor_unfold" /\ seed # 0) =>
        /\ FindIndex(seed) # 0
        /\ NextDigit(seed) = LargestAtomValue(seed)
        /\ NextDigit(seed) >= 1
        /\ NextDigit(seed) <= seed
        /\ ENABLED DigitExtractor
    /\ (pc = "itor_unfold" /\ seed = 0) => ENABLED ItorOk
    /\ pc \in {"itor_unfold", "itor_ret"} /\ itor_result.tag \in {"None", "Ok"} =>
        /\ val >= 1 /\ val <= 3999
        /\ seed >= 0
        /\ seed + SeqSum(emitted) = val
        /\ \A i \in 1..Len(emitted) : emitted[i] \in AtomValues
        /\ \A i \in 1..Len(emitted) : SymbolOf(emitted[i]) # <<>>
        /\ out = SymbolsOf(emitted)
        /\ Len(emitted) <= 15
    /\ (pc = "itor_ret" /\ itor_result.tag = "Ok") =>
        /\ seed = 0
        /\ itor_result.text = SymbolsOf(emitted)

EncoderLoopWitness ==
    /\ pc = "itor_ret"
    /\ val = 3888
    /\ seed = 0
    /\ emitted = <<1000, 1000, 1000, 500, 100, 100, 100, 50, 10, 10, 10, 5, 1, 1, 1>>
    /\ Len(itor_result.text) = 15

(***************************************************************************)
(* C12.  Decoder loop: in decompose_numeral the atom pointer numeral_pos   *)
(* never decreases and the remaining text only shrinks from the front;     *)
(* every iteration either consumes a matching symbol or advances the       *)
(* pointer; so on every character-valid input the loop ends with the       *)
(* pointer past the 13-entry table, after at most 13 + (length of the      *)
(* text) iterations.                                                       *)
(***************************************************************************)
\* t is a suffix of s
IsSuffix(t, s) ==
    /\ Len(t) <= Len(s)
    /\ SubSeq(s, Len(s) - Len(t) + 1, Len(s)) = t

\* a state of the loop: the iterations are bounded and one more step exists
DecoderLoopState ==
    /\ pc = "rtoi_loop" =>
        /\ numeral_pos <= 13
        /\ iterations <= 13 + Len(numeral)
        /\ ENABLED (ConsumeCurrent \/ AdvanceNumeral \/ RtoiLeftover \/ RtoiOk)
    /\ (pc = "rtoi_ret" /\ ReIsMatch(numeral)) =>
        /\ numeral_pos = 13
        /\ iterations >= 13
        /\ iterations <= 13 + Len(numeral)

\* a step of the loop: one iteration, or the exit
DecoderLoopStep ==
    /\ (pc = "rtoi_loop" /\ pc' = "rtoi_loop") =>
        /\ iterations' = iterations + 1
        /\ numeral_pos' >= numeral_pos
        /\ IsSuffix(remaining_to_parse', remaining_to_parse)
        /\ \/ /\ StartsWith(remaining_to_parse, ATOMS[numeral_pos + 1].symbol)
              /\ remaining_to_parse # remaining_to_parse'
              /\ ATOMS[numeral_pos + 1].symbol \o remaining_to_parse' = remaining_to_parse
              /\ result' = Append(result, ATOMS[numeral_pos + 1].value)
           \/ /\ remaining_to_parse' = remaining_to_parse
              /\ result' = result
              /\ numeral_pos' = numeral_pos + 1
    /\ (pc = "rtoi_loop" /\ pc' # "rtoi_loop") =>
        /\ pc' = "rtoi_ret"
        /\ numeral_pos = 13
        /\ UNCHANGED <<numeral_pos, remaining_to_parse, iterations>>

DecoderLoop == [](DecoderLoopState) /\ [][DecoderLoopStep]_vars

\* MMCCD: four symbols consumed without filling a group and 13 advances,
\* 17 iterations, D left over
DecoderLoopWitness ==
    /\ pc = "rtoi_ret"
    /\ numeral = <<"M", "M", "C", "C", "D">>
    /\ numeral_pos = 13
    /\ iterations = 17
    /\ remaining_to_parse = <<"D">>

(***************************************************************************)
(* C13.  Repeatability in the decoder.  As stated: after consuming an      *)
(* atom the pointer stays on it exactly when it is one of M, D, C, L, X,   *)
(* I and advances when it is one of CM, CD, XC, XL, IX, V, IV, each of     *)
(* which is consumed at most once per decode.                              *)
(***************************************************************************)
\* an iteration that consumed the current atom
ConsumeStep ==
    /\ pc = "rtoi_loop"
    /\ pc' = "rtoi_loop"
    /\ Len(result') = Len(result) + 1

\* number of times the value v was pushed
Count(v, s) == Cardinality({i \in 1..Len(s) : s[i] = v})

PlainAtoms == {<<"M">>, <<"D">>, <<"C">>, <<"L">>, <<"X">>, <<"I">>}

TripleAtoms == {<<"M">>, <<"C">>, <<"X">>, <<"I">>}

\* C13 as stated
RepeatableByFlag ==
    /\ [][ConsumeStep =>
            (numeral_pos' = numeral_pos
                <=> ATOMS[numeral_pos + 1].symbol \in PlainAtoms)]_vars
    /\ [](pc \in {"rtoi_loop", "rtoi_ret"} =>
            \A i \in 1..Len(ATOMS) :
                ATOMS[i].symbol \notin PlainAtoms
                    => Count(ATOMS[i].value, result) <= 1)

\* C13 amended: the pointer stays exactly when the atom is M, C, X or I and
\* fewer than three copies of it have been consumed; it advances after the
\* third copy and after the single copy of each of the nine other atoms.
\* M, C, X, I are consumed at most three times, every other atom at most
\* once.
RepeatableByMaxGroup ==
    /\ [][ConsumeStep =>
            /\ result' = Append(result, ATOMS[numeral_pos + 1].value)
            /\ numeral_pos' = numeral_pos
                <=> /\ ATOMS[numeral_pos + 1].symbol \in TripleAtoms
                    /\ Count(ATOMS[numeral_pos + 1].value, result) + 1 < 3
            /\ numeral_pos' # numeral_pos => numeral_pos' = numeral_pos + 1]_vars
    /\ [](pc \in {"rtoi_loop", "rtoi_ret"} =>
            \A i \in 1..Len(ATOMS) :
                Count(ATOMS[i].value, result)
                    <= (IF ATOMS[i].symbol \in TripleAtoms THEN 3 ELSE 1))

\* DD: the first D was consumed and the pointer moved on to CD
RepeatableByMaxGroupWitness ==
    /\ pc = "rtoi_loop"
    /\ numeral = <<"D", "D">>
    /\ result = <<500>>
    /\ numeral_pos = 3
    /\ remaining_to_parse = <<"D">>

(***************************************************************************)
(* C14.  Decoder output stays within the conversion bounds: whenever       *)
(* roman_to_integer(s) returns Ok(n), MIN_VALUE <= n <= MAX_VALUE, that    *)
(* is 1 <= n <= 3999, so integer_to_roman(n) never fails on a decoded      *)
(* value.                                                                  *)
(***************************************************************************)
DecodedInRange ==
    /\ (pc = "rtoi_ret" /\ rtoi_result.tag = "Ok") =>
        /\ rtoi_result.val >= MIN_VALUE
        /\ rtoi_result.val <= MAX_VALUE
    /\ (mode = "rtoi" /\ pc = "itor_ret") => itor_result.tag = "Ok"

(***************************************************************************)
(* C15.  ParseState invariant, in every state of decompose_numeral on      *)
(* character-valid input: numeral_pos <= 13; remaining_numerals is         *)
(* ATOMS[numeral_pos..]; current_numeral() is read only while              *)
(* remaining_numerals is non-empty, the read after remove_current          *)
(* included; group_size <= max_group of the current atom and is reset to   *)
(* 0 on every advance; remaining_to_parse is a suffix of the normalized    *)
(* text; hence no index or slice is out of bounds.                         *)
(***************************************************************************)
ParseStateOk ==
    (pc = "rtoi_loop" \/ (pc = "rtoi_ret" /\ ReIsMatch(numeral))) =>
        /\ numeral_pos <= 13
        /\ remaining_numerals = [i \in 1..(Len(ATOMS) - numeral_pos) |-> ATOMS[numeral_pos + i]]
        /\ IsSuffix(remaining_to_parse, numeral)
        /\ IF Len(remaining_numerals) = 0
           THEN group_size = 0
           ELSE LET atom == remaining_numerals[1]
                IN
                 /\ numeral_pos + 1 <= Len(ATOMS)
                 /\ group_size <= atom.max_group
                 /\ group_size = Count(atom.value, result)
                 /\ StartsWith(remaining_to_parse, atom.symbol) =>
                     \* remove_current and the read that follows it
                     /\ Len(atom.symbol) <= Len(remaining_to_parse)
                     /\ group_size + 1 <= atom.max_group

\* advance_numeral moves to the next atom and clears the group; staying on
\* an atom after consuming it extends the group by one
ParseStateStep ==
    pc = "rtoi_loop" =>
        /\ numeral_pos' # numeral_pos =>
            /\ numeral_pos' = numeral_pos + 1
            /\ remaining_numerals' = Tail(remaining_numerals)
            /\ group_size' = 0
        /\ (numeral_pos' = numeral_pos /\ pc' = "rtoi_loop") =>
            /\ remaining_numerals' = remaining_numerals
            /\ group_size' = group_size + 1
        /\ numeral' = numeral

ParseStateInvariant == [](ParseStateOk) /\ [][ParseStateStep]_vars

\* MMCCD after MMCC: the pointer is on C with a group of two
ParseStateInvariantWitness ==
    /\ pc = "rtoi_loop"
    /\ numeral = <<"M", "M", "C", "C", "D">>
    /\ numeral_pos = 4
    /\ group_size = 2
    /\ result = <<1000, 1000, 100, 100>>
    /\ remaining_to_parse = <<"D">>

====
